---------------------------- MODULE Spec2Model ----------------------------
(***************************************************************************)
(* Bedrock: a 16-bit word-addressed virtual machine.  The model follows    *)
(* the emulator source (the last revision in src/unnamed/part_002, lines   *)
(* 654-1098): the firmware image `assembler`, the memory_adapter, the two  *)
(* disk_controllers, the bus (do_bsr / do_bsw) and the execute loop.       *)
(*                                                                         *)
(* One step of the model is one iteration of the loop in execute(): fetch, *)
(* increment pc, decode, execute.  The initial state is the state built by *)
(* machine_state's constructor; what varies are the machine's inputs: the  *)
(* two disk files and the bytes on standard input.                         *)
(***************************************************************************)
EXTENDS Integers, Sequences, FiniteSets, TLC

VARIABLES
    pc,         \* machine_state::pc
    hi,         \* machine_state::hi
    regs,       \* machine_state::regs, 16 words
    memory,     \* memory_adapter::memory, the RAM vector (index = address - 40)
    disk0,      \* machine_state::disk0
    disk1,      \* machine_state::disk1
    halt,       \* machine_state::halt
    stdin,      \* bytes not yet read from standard input
    stdout,     \* bytes put to std::cout so far
    word,       \* the instruction word fetched by the current cycle
    instr,      \* its decoding: the structured binding [op, dst, src1, src0]
    get_first,  \* which of the two file.get() calls of the read loop the build runs first
    written,    \* history: the last write command that moved a sector, and the window it moved
    flushed,    \* how many of the bytes of stdout have left std::cout's buffer
    run,        \* the inputs the process was started with; never changes
    main_at,    \* where main is: "entry", "execute" or "returned"
    exit_code,  \* <<c>> once main has returned c, <<>> before
    cerr        \* the messages put to std::cerr so far

vars == <<pc, hi, regs, memory, disk0, disk1, halt, stdin, stdout, word, instr, get_first,
          written, flushed, run, main_at, exit_code, cerr>>

-----------------------------------------------------------------------------
(* Sizes fixed by the program. *)

Words == 65536          \* values of a std::uint16_t
sector_size == 512
word_size == 2
sector_words == sector_size \div word_size
max_word == 65535

Word == 0 .. (Words - 1)
Nibble == 0 .. 15

-----------------------------------------------------------------------------
(* Bit operations on naturals, as C++ computes them on unsigned values. *)

RECURSIVE BitAnd(_, _)
BitAnd(a, b) ==
    IF a = 0 \/ b = 0 THEN 0
    ELSE (a % 2) * (b % 2) + 2 * BitAnd(a \div 2, b \div 2)

RECURSIVE BitOr(_, _)
BitOr(a, b) ==
    IF a = 0 THEN b
    ELSE IF b = 0 THEN a
    ELSE (IF a % 2 = 1 \/ b % 2 = 1 THEN 1 ELSE 0) + 2 * BitOr(a \div 2, b \div 2)

RECURSIVE Pow2(_)
Pow2(n) == IF n = 0 THEN 1 ELSE 2 * Pow2(n - 1)

\* x >> n on a non-negative int
ShiftRight(x, n) == x \div Pow2(n)

\* the conversion of an int to std::uint16_t
Narrow16(x) == x % Words

-----------------------------------------------------------------------------
(* The firmware image. *)

assembler ==
    << 8193, 60160, 11048,  8456,   513,  8458,   529, 49152, 61632,   187,
      57868,  8458, 24609,  8464,     1,   187,  8250, 32770,  8472,   257,
       8240, 24578,  8474,   273,  8279, 24578, 40783, 53007,  8705, 24290,
       8195, 45070,  8486,   257, 20669, 16624, 23853, 57356,  8458,     1 >>

\* assembler.size()
assembler_size == Len(assembler)

-----------------------------------------------------------------------------
(* memory_adapter.  The RAM vector has 65536 - 40 zero-initialised words; *)
(* it is held as the function from the indices of its non-zero words to   *)
(* their values.                                                          *)

Cell(mem, i) == IF i \in DOMAIN mem THEN mem[i] ELSE 0

Put(mem, i, w) ==
    IF w = 0
    THEN [j \in (DOMAIN mem) \ {i} |-> mem[j]]
    ELSE [j \in (DOMAIN mem) \cup {i} |-> IF j = i THEN w ELSE mem[j]]

\* if (address >= assembler.size())
is_ram_always(address) == TRUE

is_ram(address) == address >= assembler_size

\* memory[address - assembler.size()]
ram_index(address) == address - assembler_size

\* if (address >= assembler.size())
write_unprotected(mem, address, w) == Put(mem, ram_index(address), w)

write_above(mem, address, w) ==
    IF address > assembler_size THEN Put(mem, ram_index(address), w) ELSE mem

write(mem, address, w) ==
    IF is_ram(address)
    THEN Put(mem, ram_index(address), w)
    ELSE mem

read(mem, address) ==
    IF is_ram(address)
    THEN Cell(mem, ram_index(address))
    ELSE assembler[address + 1]

-----------------------------------------------------------------------------
(* decode *)

\* enum class opcode : jmp, rhi, set, lod, sto, add, sub, mul, div, shl, shr,
\* And, lor, Not, bsr, bsw
opcode == 0 .. 15

decode_swapped(w) ==
    [ op   |-> ShiftRight(BitAnd(w, 240), 4),
      dst  |-> BitAnd(w, 15),
      src1 |-> ShiftRight(BitAnd(w, 61440), 12),
      src0 |-> ShiftRight(BitAnd(w, 3840), 8) ]

decode(w) ==
    [ op   |-> ShiftRight(BitAnd(w, 61440), 12),
      dst  |-> ShiftRight(BitAnd(w, 3840), 8),
      src1 |-> ShiftRight(BitAnd(w, 240), 4),
      src0 |-> BitAnd(w, 15) ]


-----------------------------------------------------------------------------
(* A disk file: its size in bytes and its bytes, held as the function from *)
(* the offsets of the non-zero bytes to their values.                      *)

NoDisk == [size |-> -1, data |-> <<>>]

\* std::fstream::get at offset pos: the byte there, or EOF (-1) at the end
FileGet(f, pos) == IF pos < f.size THEN Cell(f.data, pos) ELSE -1

disk_controller_unset(path) ==
    IF path # NoDisk
    THEN LET n_sectors == path.size \div sector_size
         IN  [ is_open |-> TRUE, file |-> path,
               sector_count |-> IF n_sectors < max_word THEN n_sectors ELSE max_word,
               sector |-> 0, address |-> 0 ]
    ELSE [ is_open |-> FALSE, file |-> NoDisk,
           sector_count |-> max_word, sector |-> 0, address |-> 0 ]

disk_controller_truncating(path) ==
    IF path # NoDisk
    THEN [ is_open |-> TRUE, file |-> path,
           sector_count |-> (path.size \div sector_size) % Words,
           sector |-> 0, address |-> 0 ]
    ELSE [ is_open |-> FALSE, file |-> NoDisk,
           sector_count |-> 0, sector |-> 0, address |-> 0 ]

(* disk_controller::disk_controller *)
disk_controller(path) ==
    IF path # NoDisk
    THEN LET n_sectors == path.size \div sector_size
         IN  [ is_open |-> TRUE, file |-> path,
               sector_count |-> IF n_sectors < max_word THEN n_sectors ELSE max_word,
               sector |-> 0, address |-> 0 ]
    ELSE [ is_open |-> FALSE, file |-> NoDisk,
           sector_count |-> 0, sector |-> 0, address |-> 0 ]

-----------------------------------------------------------------------------
(* do_disk_operation.  `first` is the order in which the build evaluates   *)
(* the two operands of  file.get() << 8 | file.get() : C++ leaves the      *)
(* order of the two calls unspecified, so the byte read first is the high  *)
(* byte ("left") or the low byte ("right") of the word.                    *)

GetWord(f, pos, first) ==
    LET b0 == FileGet(f, pos)
        b1 == FileGet(f, pos + 1)
    IN  IF first = "left" THEN BitOr(b0 * 256, b1) ELSE BitOr(b1 * 256, b0)

(* The loop of case 0,                                                     *)
(*     for (i = 0; i < sector_words; ++i) memory.write(address + i, ...)   *)
(* with the file at offset pos before it.  Iteration i reads the two bytes *)
(* at pos + 2i and writes address + i (as a std::uint16_t); the 256        *)
(* addresses differ, so the loop's result is given cell by cell: RAM cell  *)
(* j is written by iteration IterOf(j) when that is below sector_words.    *)
read_loop_past_rom(disk, mem, pos, first) ==
    LET target(i) == Narrow16(disk.address + assembler_size + i)
        hit == { ram_index(target(i)) :
                   i \in { k \in 0 .. (sector_words - 1) : is_ram(target(k)) } }
        IterOf(j) == Narrow16(j - disk.address)
        val(j) == IF j \in hit
                  THEN Narrow16(GetWord(disk.file, pos + 2 * IterOf(j), first))
                  ELSE Cell(mem, j)
    IN  [ j \in { k \in (DOMAIN mem) \cup hit : val(k) # 0 } |-> val(j) ]

\* memory.write(disk.address + i, ...): the conversion of the sum to the
\* std::uint16_t parameter of write
read_loop_unwrapped(disk, mem, pos, first) ==
    LET target(i) == disk.address + i
        hit == { ram_index(target(i)) :
                   i \in { k \in 0 .. (sector_words - 1) : is_ram(target(k)) } }
        IterOf(j) == j + assembler_size - disk.address
        val(j) == IF j \in hit
                  THEN Narrow16(GetWord(disk.file, pos + 2 * IterOf(j), first))
                  ELSE Cell(mem, j)
    IN  [ j \in { k \in (DOMAIN mem) \cup hit : val(k) # 0 } |-> val(j) ]

read_loop(disk, mem, pos, first) ==
    LET target(i) == Narrow16(disk.address + i)
        hit == { ram_index(target(i)) :
                   i \in { k \in 0 .. (sector_words - 1) : is_ram(target(k)) } }
        IterOf(j) == Narrow16(j + assembler_size - disk.address)
        val(j) == IF j \in hit
                  THEN Narrow16(GetWord(disk.file, pos + 2 * IterOf(j), first))
                  ELSE Cell(mem, j)
    IN  [ j \in { k \in (DOMAIN mem) \cup hit : val(k) # 0 } |-> val(j) ]

\* the bound of the loop of case 1
write_count == sector_size

(* The loop of case 1,                                                     *)
(*     for (i = 0; i < sector_size; ++i) { put(word >> 8); put(word & 0xff) } *)
(* with the file at offset pos before it.  Iteration i puts the two bytes  *)
(* of memory.read(address + i) at pos + 2i and pos + 2i + 1, extending the *)
(* file where it ends; the offsets differ, so the result is given byte by  *)
(* byte.                                                                   *)
write_loop(f, mem, address, pos) ==
    LET end == pos + 2 * write_count
        w(i) == read(mem, Narrow16(address + i))
        val(o) == IF pos <= o /\ o < end
                  THEN IF (o - pos) % 2 = 0
                       THEN ShiftRight(w((o - pos) \div 2), 8)
                       ELSE BitAnd(w((o - pos) \div 2), 255)
                  ELSE Cell(f.data, o)
    IN  [ size |-> IF end > f.size THEN end ELSE f.size,
          data |-> [ o \in { k \in (DOMAIN f.data) \cup (pos .. (end - 1)) : val(k) # 0 }
                     |-> val(o) ] ]

do_disk_operation_unchecked(disk, mem, control, first) ==
    IF ~disk.is_open
    THEN [disk |-> disk, memory |-> mem]
    ELSE CASE control = 0 ->
                IF disk.sector < disk.sector_count
                THEN [disk |-> disk,
                      memory |-> read_loop(disk, mem, sector_size * disk.sector, first)]
                ELSE [disk |-> disk, memory |-> mem]
           [] control = 1 ->
                [disk |-> [disk EXCEPT !.file =
                              write_loop(disk.file, mem, disk.address,
                                         sector_size * disk.sector)],
                 memory |-> mem]
           [] OTHER -> [disk |-> disk, memory |-> mem]

do_disk_operation_default_write(disk, mem, control, first) ==
    IF ~disk.is_open
    THEN [disk |-> disk, memory |-> mem]
    ELSE IF disk.sector < disk.sector_count
         THEN IF control = 0
              THEN [disk |-> disk,
                    memory |-> read_loop(disk, mem, sector_size * disk.sector, first)]
              ELSE [disk |-> [disk EXCEPT !.file =
                                 write_loop(disk.file, mem, disk.address,
                                            sector_size * disk.sector)],
                    memory |-> mem]
         ELSE [disk |-> disk, memory |-> mem]

do_disk_operation(disk, mem, control, first) ==
    IF ~disk.is_open
    THEN [disk |-> disk, memory |-> mem]
    ELSE CASE control = 0 ->
                IF disk.sector < disk.sector_count
                THEN [disk |-> disk,
                      memory |-> read_loop(disk, mem, sector_size * disk.sector, first)]
                ELSE [disk |-> disk, memory |-> mem]
           [] control = 1 ->
                IF disk.sector < disk.sector_count
                THEN [disk |-> [disk EXCEPT !.file =
                                   write_loop(disk.file, mem, disk.address,
                                              sector_size * disk.sector)],
                      memory |-> mem]
                ELSE [disk |-> disk, memory |-> mem]
           [] OTHER -> [disk |-> disk, memory |-> mem]

-----------------------------------------------------------------------------
(* The arithmetic of execute().  A 32-bit result c is held as its two     *)
(* halves: lo = c & 0xffff, hi = c >> 16.                                 *)

alu_add_nocarry(a, b) == [lo |-> (a + b) % Words, hi |-> 0]

alu_add(a, b) ==
    LET c == a + b
    IN  [lo |-> BitAnd(c, 65535), hi |-> ShiftRight(c, 16)]

alu_sub_nohigh(a, b) == [lo |-> (a - b) % Words, hi |-> 0]

\* a - b in std::uint32_t wraps modulo 2^32
alu_sub(a, b) ==
    LET c == a - b
    IN  [lo |-> c % Words, hi |-> (c \div Words) % Words]

\* a * b in std::uint32_t, computed from the bytes of a and b
alu_mul(a, b) ==
    LET a1 == a \div 256
        a0 == a % 256
        b1 == b \div 256
        b0 == b % 256
        t  == (a1 * b0 + a0 * b1) * 256 + a0 * b0
    IN  [lo |-> t % Words, hi |-> (a1 * b1 + t \div Words) % Words]

alu_div_lowonly(a, b) ==
    IF b # 0 THEN [lo |-> a \div b, hi |-> 0] ELSE [lo |-> 65535, hi |-> 0]

\* b ? a / b : 0xffffffff
alu_div(a, b) ==
    IF b # 0
    THEN LET c == a \div b IN [lo |-> BitAnd(c, 65535), hi |-> ShiftRight(c, 16)]
    ELSE [lo |-> 65535, hi |-> 65535]

-----------------------------------------------------------------------------
(* do_jmp; p is state.pc when it is called, that is after pc++ *)

\* if (state.regs[src1])
do_jmp_always(p, r, dst, src1, src0) ==
    [pc |-> r[src0], regs |-> [r EXCEPT ![dst] = p]]

\* state.regs[dst] = old_pc
do_jmp_no_link(p, r, dst, src1, src0) ==
    IF r[src1] # 0
    THEN [pc |-> r[src0], regs |-> r]
    ELSE [pc |-> p, regs |-> r]

do_jmp_link_first(p, r, dst, src1, src0) ==
    IF r[src1] # 0
    THEN LET r1 == [r EXCEPT ![dst] = p]
         IN  [pc |-> r1[src0], regs |-> r1]
    ELSE [pc |-> p, regs |-> r]

do_jmp(p, r, dst, src1, src0) ==
    IF r[src1] # 0
    THEN LET old_pc == p
         IN  [pc |-> r[src0], regs |-> [r EXCEPT ![dst] = old_pc]]
    ELSE [pc |-> p, regs |-> r]


-----------------------------------------------------------------------------
(* The inputs of a run: the two disk files (NoDisk for "--"), the bytes on *)
(* standard input, and the build's choice of evaluation order.  The runs   *)
(* below boot guest programs from sector 0 of disk0 (the firmware loads    *)
(* sector words 40..255 to addresses 40..255 and jumps to 0x28), or leave  *)
(* the disks out and type into the interactive assembler.                  *)

\* an instruction word from its four fields
Enc(op, dst, src1, src0) == op * 4096 + dst * 256 + src1 * 16 + src0

\* bounds of the inputs
NData == 3
DiskSectors == 2

DataPool == <<0, 255, 1, 128, 2, 127>>
DataBytes == { DataPool[i] : i \in 1 .. NData }

\* the byte strings of length n over DataBytes
RECURSIVE Strings(_)
Strings(n) ==
    IF n = 0 THEN { <<>> }
    ELSE { <<b>> \o t : b \in DataBytes, t \in Strings(n - 1) }

\* set r0, 7 ; bsw r0 -> [r0] : raises halt
HaltCode == << Enc(2, 0, 0, 7), Enc(15, 0, 0, 0) >>

\* r1 and r2 are loaded with two 16-bit words from standard input, then every
\* register-to-register opcode runs on them
AluProgram ==
    << Enc(14, 1, 0, 12),   \* 40: bsr r1, [rc]       rc = 0: serial port
       Enc(9, 1, 8, 1),     \* 41: shl r1, r1 << 8
       Enc(14, 3, 0, 12),   \* 42: bsr r3, [rc]
       Enc(12, 1, 3, 1),    \* 43: lor r1, r1 | r3
       Enc(14, 2, 0, 12),   \* 44: bsr r2, [rc]
       Enc(9, 2, 8, 2),     \* 45: shl r2, r2 << 8
       Enc(14, 3, 0, 12),   \* 46: bsr r3, [rc]
       Enc(12, 2, 3, 2),    \* 47: lor r2, r2 | r3
       Enc(5, 4, 2, 1),     \* 48: add r4, r1 + r2
       Enc(1, 5, 2, 1),     \* 49: rhi r5
       Enc(6, 6, 2, 1),     \* 50: sub r6, r1 - r2
       Enc(1, 7, 2, 1),     \* 51: rhi r7
       Enc(7, 8, 2, 1),     \* 52: mul r8, r1 * r2
       Enc(1, 9, 2, 1),     \* 53: rhi r9
       Enc(8, 10, 2, 1),    \* 54: div r10, r1 / r2
       Enc(1, 3, 2, 1),     \* 55: rhi r3
       Enc(9, 4, 3, 1),     \* 56: shl r4, r1 << 3
       Enc(10, 5, 3, 1),    \* 57: shr r5, r1 >> 3
       Enc(9, 13, 15, 1),   \* 58: shl r13, r1 << 15
       Enc(10, 14, 15, 1),  \* 59: shr r14, r1 >> 15
       Enc(11, 6, 2, 1),    \* 60: and r6, r1 & r2
       Enc(12, 7, 2, 1),    \* 61: lor r7, r1 | r2
       Enc(13, 8, 2, 1),    \* 62: not r8, ~r1
       Enc(4, 9, 1, 2),     \* 63: sto r1 -> [r2]
       Enc(3, 9, 1, 2),     \* 64: lod r9, [r2]
       Enc(2, 9, 10, 11),   \* 65: set r9, 0xab
       Enc(5, 1, 2, 1),     \* 66: add r1, r1 + r2    dst = src0
       Enc(1, 1, 1, 1),     \* 67: rhi r1
       Enc(8, 2, 2, 1),     \* 68: div r2, r1 / r2    dst = src1
       Enc(6, 2, 2, 2),     \* 69: sub r2, r2 - r2
       Enc(7, 1, 1, 1)      \* 70: mul r1, r1 * r1
    >> \o HaltCode

\* three jumps, conditional on a byte from standard input: one with its
\* link in a third register, one with dst = src0, one with dst = src1
JumpProgram ==
    << Enc(14, 1, 0, 12),   \* 40: bsr r1, [rc]
       Enc(2, 4, 2, 14),    \* 41: set r4, 46
       Enc(0, 5, 1, 4),     \* 42: jmp r5, r1 ? r4
       Enc(2, 0, 0, 7),     \* 43: set r0, 7
       Enc(15, 0, 0, 0),    \* 44: bsw r0 -> [r0]     halt
       Enc(12, 0, 0, 0),    \* 45: lor r0, r0 | r0
       Enc(2, 4, 3, 2),     \* 46: set r4, 50
       Enc(0, 4, 1, 4),     \* 47: jmp r4, r1 ? r4    dst = src0
       Enc(2, 0, 0, 7),     \* 48: set r0, 7
       Enc(15, 0, 0, 0),    \* 49: bsw r0 -> [r0]     halt
       Enc(2, 6, 3, 6),     \* 50: set r6, 54
       Enc(0, 1, 1, 6),     \* 51: jmp r1, r1 ? r6    dst = src1
       Enc(2, 0, 0, 7),     \* 52: set r0, 7
       Enc(15, 0, 0, 0),    \* 53: bsw r0 -> [r0]     halt
       Enc(13, 7, 0, 1)     \* 54: not r7, ~r1
    >> \o HaltCode

\* a store to ROM address 0 and a load from it; a bus write of zero, then
\* of 7, to the halt port
RomProgram ==
    << Enc(2, 0, 10, 11),   \* 40: set r0, 0xab
       Enc(2, 1, 0, 0),     \* 41: set r1, 0
       Enc(4, 0, 0, 1),     \* 42: sto r0 -> [r1]
       Enc(3, 2, 1, 0),     \* 43: lod r2, [r0]       (address 0xab)
       Enc(3, 2, 0, 1),     \* 44: lod r2, [r1]
       Enc(2, 3, 2, 7),     \* 45: set r3, 39
       Enc(4, 0, 0, 3),     \* 46: sto r0 -> [r3]
       Enc(2, 3, 2, 8),     \* 47: set r3, 40
       Enc(4, 0, 0, 3),     \* 48: sto r0 -> [r3]     (over the word at 40)
       Enc(3, 4, 0, 3),     \* 49: lod r4, [r3]
       Enc(2, 0, 0, 7),     \* 50: set r0, 7
       Enc(15, 0, 1, 0),    \* 51: bsw r1 -> [r0]     0 to the halt port
       Enc(2, 2, 5, 10)     \* 52: set r2, 0x5a
    >> \o HaltCode

\* a sector, an address and a pattern from standard input; the controller at
\* bus address `base` writes the window, the window is overwritten, and the
\* controller reads it back
DiskProgram(base) ==
    << Enc(14, 1, 0, 12),       \* 40: bsr r1, [rc]       sector
       Enc(14, 2, 0, 12),       \* 41: bsr r2, [rc]
       Enc(9, 2, 8, 2),         \* 42: shl r2, r2 << 8
       Enc(14, 3, 0, 12),       \* 43: bsr r3, [rc]
       Enc(12, 2, 3, 2),        \* 44: lor r2, r2 | r3    address
       Enc(2, 3, 0, base + 1),  \* 45: set r3, base + 1
       Enc(15, 0, 1, 3),        \* 46: bsw r1 -> [r3]     sector register
       Enc(2, 3, 0, base + 2),  \* 47: set r3, base + 2
       Enc(15, 0, 2, 3),        \* 48: bsw r2 -> [r3]     address register
       Enc(2, 5, 5, 10),        \* 49: set r5, 0x5a
       Enc(9, 5, 4, 5),         \* 50: shl r5, r5 << 4    0x05a0
       Enc(4, 0, 5, 2),         \* 51: sto r5 -> [r2]
       Enc(2, 3, 0, base),      \* 52: set r3, base
       Enc(2, 4, 0, 1),         \* 53: set r4, 1
       Enc(15, 0, 4, 3),        \* 54: bsw r4 -> [r3]     write command
       Enc(4, 0, 3, 2),         \* 55: sto r3 -> [r2]     overwrite
       Enc(2, 4, 0, 0),         \* 56: set r4, 0
       Enc(15, 0, 4, 3),        \* 57: bsw r4 -> [r3]     read command
       Enc(3, 6, 0, 2),         \* 58: lod r6, [r2]
       Enc(14, 7, 0, 3),        \* 59: bsr r7, [r3]       sector count
       Enc(2, 4, 0, 2),         \* 60: set r4, 2
       Enc(15, 0, 4, 3)         \* 61: bsw r4 -> [r3]     command 2
    >> \o HaltCode

\* a word v from standard input; the sector and address ports of both
\* controllers are read, written with v and ~v and read again; bus addresses
\* 7, 8, 0xffff and v are read and written; the serial port is read at the
\* end of input and written twice
BusProgram ==
    << Enc(14, 1, 0, 12),   \* 40: bsr r1, [rc]
       Enc(9, 1, 8, 1),     \* 41: shl r1, r1 << 8
       Enc(14, 3, 0, 12),   \* 42: bsr r3, [rc]
       Enc(12, 1, 3, 1),    \* 43: lor r1, r1 | r3    v
       Enc(13, 9, 0, 1),    \* 44: not r9, ~r1
       Enc(2, 4, 0, 2),     \* 45: set r4, 2
       Enc(14, 5, 0, 4),    \* 46: bsr r5, [r4]       disk0 sector
       Enc(2, 4, 0, 5),     \* 47: set r4, 5
       Enc(14, 5, 0, 4),    \* 48: bsr r5, [r4]       disk1 sector, never written
       Enc(15, 0, 1, 4),    \* 49: bsw r1 -> [r4]     disk1 sector
       Enc(14, 6, 0, 4),    \* 50: bsr r6, [r4]
       Enc(2, 4, 0, 6),     \* 51: set r4, 6
       Enc(14, 7, 0, 4),    \* 52: bsr r7, [r4]       disk1 address, never written
       Enc(15, 0, 9, 4),    \* 53: bsw r9 -> [r4]     disk1 address
       Enc(14, 7, 0, 4),    \* 54: bsr r7, [r4]
       Enc(2, 4, 0, 2),     \* 55: set r4, 2
       Enc(14, 8, 0, 4),    \* 56: bsr r8, [r4]       disk0 sector again
       Enc(2, 4, 0, 3),     \* 57: set r4, 3
       Enc(15, 0, 1, 4),    \* 58: bsw r1 -> [r4]     disk0 address
       Enc(14, 8, 0, 4),    \* 59: bsr r8, [r4]
       Enc(2, 4, 0, 5),     \* 60: set r4, 5
       Enc(14, 8, 0, 4),    \* 61: bsr r8, [r4]       disk1 sector again
       Enc(2, 10, 10, 11),  \* 62: set r10, 0xab
       Enc(2, 4, 0, 7),     \* 63: set r4, 7
       Enc(14, 10, 0, 4),   \* 64: bsr r10, [r4]      bus address 7
       Enc(2, 10, 10, 11),  \* 65: set r10, 0xab
       Enc(2, 4, 0, 8),     \* 66: set r4, 8
       Enc(14, 10, 0, 4),   \* 67: bsr r10, [r4]      bus address 8
       Enc(15, 0, 0, 4),    \* 68: bsw r0 -> [r4]
       Enc(2, 10, 10, 11),  \* 69: set r10, 0xab
       Enc(13, 4, 0, 12),   \* 70: not r4, ~rc        0xffff
       Enc(14, 10, 0, 4),   \* 71: bsr r10, [r4]      bus address 0xffff
       Enc(15, 0, 4, 4),    \* 72: bsw r4 -> [r4]
       Enc(2, 10, 10, 11),  \* 73: set r10, 0xab
       Enc(14, 10, 0, 1),   \* 74: bsr r10, [r1]      bus address v
       Enc(15, 0, 10, 1),   \* 75: bsw r10 -> [r1]
       Enc(2, 4, 0, 1),     \* 76: set r4, 1
       Enc(2, 5, 1, 0),     \* 77: set r5, 0x10
       Enc(9, 5, 4, 5),     \* 78: shl r5, r5 << 4    0x0100
       Enc(15, 0, 5, 4),    \* 79: bsw r5 -> [r4]     command 0x0100 to disk0
       Enc(14, 11, 0, 12),  \* 80: bsr r11, [rc]      serial port, end of input
       Enc(14, 13, 0, 12),  \* 81: bsr r13, [rc]
       Enc(15, 0, 1, 12),   \* 82: bsw r1 -> [rc]     serial port
       Enc(15, 0, 9, 12)    \* 83: bsw r9 -> [rc]
    >> \o HaltCode

\* the two bytes of word w in the order in which a build that evaluates the
\* get() calls in order `first` reads them back as w
ByteAt(w, j, first) ==
    IF (j = 0) = (first = "left") THEN w \div 256 ELSE w % 256

\* a disk file of n sectors whose sector 0 holds prog from word 40 on, and
\* whose other sectors start with a word that is not zero
BootDisk(prog, n, first) ==
    LET marks == { 512 * s + j : s \in 1 .. (n - 1), j \in {0, 1, 510} }
        code  == { 2 * (39 + k) + j : k \in 1 .. Len(prog), j \in {0, 1} }
        byte(o) == IF o \in marks THEN 17 + (o % 7)
                   ELSE ByteAt(prog[(o \div 2) - 39], o % 2, first)
    IN  [ size |-> 512 * n,
          data |-> [ o \in { x \in marks \cup code : byte(x) # 0 } |-> byte(o) ] ]

\* a disk file of n sectors with a few bytes that are not zero in each
DataDisk(n) ==
    [ size |-> 512 * n,
      data |-> [ o \in { 512 * s + j : s \in 0 .. (n - 1), j \in {0, 1, 2, 511} }
                 |-> 1 + (o % 250) ] ]

Orders == {"left", "right"}

\* argv[1] and argv[2], standard input, and the build's order of evaluation
Run(d0, d1, in, first) == [argv |-> <<d0, d1>>, stdin |-> in, first |-> first]

\* the second operand is a byte, or a word of two equal bytes
AluRuns ==
    { Run(BootDisk(AluProgram, 1, "left"), NoDisk, in, "left") :
        in \in { x \in Strings(4) : x[3] \in {0, x[4]} } }

JumpRuns ==
    { Run(BootDisk(JumpProgram, 1, "left"), NoDisk, in, "left") : in \in Strings(1) }

RomRuns ==
    { Run(BootDisk(RomProgram, 1, first), DataDisk(1), <<>>, first) : first \in Orders }

\* the window of 256 words at the address typed in `in` leaves the words of
\* the program alone
ClearOfCode(in, prog) ==
    \A k \in 0 .. (sector_words - 1) :
        Narrow16(in[2] * 256 + in[3] + k) \notin 40 .. (39 + Len(prog))

\* a build that reads a word back with its bytes exchanged would rewrite the
\* running program: it gets the windows that leave the program alone
DiskInputs(base, first) ==
    { in \in Strings(3) : first = "left" \/ ClearOfCode(in, DiskProgram(base)) }

DiskRuns ==
    UNION { { Run(BootDisk(DiskProgram(c[1]), DiskSectors, c[2]), DataDisk(DiskSectors), in, c[2]) :
                in \in DiskInputs(c[1], c[2]) } :
            c \in {1, 4} \X Orders }

\* the program of DiskRuns addressing the controller of disk1, started
\* without a file for disk1
AbsentRuns ==
    { Run(BootDisk(DiskProgram(4), 1, "left"), NoDisk, in, "left") :
        in \in { x \in Strings(3) : x[2] = x[3] } }

\* a disk file of 65537 sectors and 100 bytes more
BigDisk ==
    [ size |-> 512 * 65537 + 100,
      data |-> [ o \in { 0, 1, 511, 512 * 255, 512 * 65536 + 3 } |-> 1 + (o % 250) ] ]

\* the program of DiskRuns addressing the controller of disk1, with the big
\* file as disk1
BigRuns ==
    { Run(BootDisk(DiskProgram(4), 1, "left"), BigDisk, in, "left") :
        in \in { x \in Strings(3) : x[2] = x[3] } }

\* BusProgram with and without a file for disk1
BusRuns ==
    { Run(BootDisk(BusProgram, 1, "left"), d1, in, "left") :
        d1 \in {NoDisk, DataDisk(1)}, in \in Strings(2) }

\* the text typed into the interactive assembler: each line and its newline,
\* then the empty line that starts the assembled code
RECURSIVE Typed(_)
Typed(lines) ==
    IF lines = <<>> THEN <<10>> ELSE Head(lines) \o <<10>> \o Typed(Tail(lines))

\* "2007", "f000": set r0, 7 ; bsw r0 -> [r0]
HaltLines == << <<50, 48, 48, 55>>, <<102, 48, 48, 48>> >>

\* "2101", "e010", "f010": set r1, 1 ; bsr r0, [r0] ; bsw r1 -> [r0]
EchoLines == << <<50, 49, 48, 49>>, <<101, 48, 49, 48>>, <<102, 48, 49, 48>> >>

\* "1100", "3200", "7300", "a400", "d500": rhi r1 ; lod r2, [r0] ; mul r3 ;
\* shr r4 ; not r5 : the opcodes the firmware does not use
RestLines ==
    << <<49, 49, 48, 48>>, <<51, 50, 48, 48>>, <<55, 51, 48, 48>>,
       <<97, 52, 48, 48>>, <<100, 53, 48, 48>> >>

\* lines of four hexadecimal digits: '0' or 'f', '0' or 'f', '5', '9' or 'a'
DataLines == { <<a, b, 53, c>> : a \in {48, 102}, b \in {48, 102}, c \in {57, 97} }

Reverse(line) == [ i \in 1 .. Len(line) |-> line[Len(line) + 1 - i] ]

\* bytes other than the newline that can follow the four digits of a line:
\* NUL, carriage return, space, 0xff
LineEnds == {0, 13, 32, 255}

\* the lines, each followed by the byte d
RECURSIVE Ended(_, _)
Ended(lines, d) ==
    IF lines = <<>> THEN <<>> ELSE Head(lines) \o <<d>> \o Ended(Tail(lines), d)

\* a file shorter than one sector
ShortDisk == [ size |-> 100, data |-> [ o \in {0, 1, 99} |-> 1 + o ] ]

\* no disk with a sector: text typed into the interactive assembler.  The
\* halting program alone, with a disk file too short to hold a sector, or
\* followed by one or two lines of data; the echo program and its input byte;
\* an empty line first; the opcodes the firmware does not use; lines ended
\* by a byte that is not a newline; a last line of one to three digits
AssemblerRuns ==
    { Run(d0, NoDisk, Typed(HaltLines), "left") : d0 \in {NoDisk, ShortDisk} }
    \cup { Run(NoDisk, NoDisk, Typed(HaltLines \o <<l>>), "left") : l \in DataLines }
    \cup { Run(NoDisk, NoDisk, Typed(HaltLines \o <<l, Reverse(l)>>), "left") :
             l \in DataLines }
    \cup { Run(NoDisk, NoDisk, Typed(EchoLines \o HaltLines) \o <<65>>, "left") }
    \cup { Run(NoDisk, NoDisk, <<10>> \o Typed(<<l>> \o HaltLines), "left") :
             l \in { <<48, 48, 48>> } }
    \cup { Run(NoDisk, NoDisk, Typed(RestLines \o HaltLines), "left") }
    \cup { Run(NoDisk, NoDisk, Ended(HaltLines, d) \o <<10>>, "left") : d \in LineEnds }
    \cup { Run(NoDisk, NoDisk, Ended(HaltLines, 10) \o part \o <<10>>, "left") :
             part \in { <<50>>, <<50, 48>>, <<50, 48, 48>> } }

\* r0 = 5, r1 = 0, then the words 0x8201, 0x1300 and the words 0x8210, 0x1300
DivProgram ==
    << Enc(2, 0, 0, 5),     \* 40: set r0, 5
       Enc(2, 1, 0, 0),     \* 41: set r1, 0
       33281,               \* 42: 0x8201  div r2, r1 / r0
       4864,                \* 43: 0x1300  rhi r3
       33296,               \* 44: 0x8210  div r2, r0 / r1
       4864                 \* 45: 0x1300  rhi r3
    >> \o HaltCode

\* the words 0x20ab, 0x2100, 0x4010, 0x3210, then the words 0x4001, 0x3201
StoreProgram ==
    << 8363,                \* 40: 0x20ab  set r0, 0xab
       8448,                \* 41: 0x2100  set r1, 0
       16400,               \* 42: 0x4010  sto r1 -> [r0]
       12816,               \* 43: 0x3210  lod r2, [r0]
       16385,               \* 44: 0x4001  sto r0 -> [r1]
       12801                \* 45: 0x3201  lod r2, [r1]
    >> \o HaltCode

\* the words 0x2030, 0x2101, 0x0210 at 0x28, 0x29, 0x2a and a halt at 0x30
LinkProgram ==
    << 8240,                \* 40: 0x2030  set r0, 0x30
       8449,                \* 41: 0x2101  set r1, 1
       528                  \* 42: 0x0210  jmp r2, r1 ? r0
    >> \o HaltCode         \* 43, 44
       \o << Enc(12, 0, 0, 0), Enc(12, 0, 0, 0), Enc(12, 0, 0, 0) >>
       \o HaltCode         \* 48 = 0x30, 49

\* the scenarios S3, S4 and S6: their words booted from sector 0 of disk0
S3 == Run(BootDisk(DivProgram, 1, "left"), NoDisk, <<>>, "left")
S4 == Run(BootDisk(StoreProgram, 1, "left"), NoDisk, <<>>, "left")
S6 == Run(BootDisk(LinkProgram, 1, "left"), NoDisk, <<>>, "left")

ScenarioRuns == {S3, S4, S6}

\* control is sent to address 0xffff, where a byte from standard input
\* decides what is found: a taken jump to the halt (the byte is not zero), or
\* the zero word with r0 = 0, a jump that is not taken
WrapProgram ==
    << Enc(14, 1, 0, 12),   \* 40: bsr r1, [rc]
       Enc(2, 3, 15, 15),   \* 41: set r3, 0xff
       Enc(9, 3, 8, 3),     \* 42: shl r3, r3 << 8
       Enc(2, 4, 15, 15),   \* 43: set r4, 0xff
       Enc(12, 3, 4, 3),    \* 44: lor r3, r3 | r4    r3 = 0xffff
       Enc(2, 8, 0, 5),     \* 45: set r8, 0x05
       Enc(9, 8, 8, 8),     \* 46: shl r8, r8 << 8
       Enc(2, 9, 6, 7),     \* 47: set r9, 0x67
       Enc(12, 8, 9, 8),    \* 48: lor r8, r8 | r9    r8 = 0x0567: jmp r5, r6 ? r7
       Enc(2, 6, 0, 1),     \* 49: set r6, 1
       Enc(2, 7, 3, 9),     \* 50: set r7, 57
       Enc(2, 11, 3, 7),    \* 51: set r11, 55
       Enc(2, 0, 0, 0),     \* 52: set r0, 0
       Enc(0, 12, 1, 11),   \* 53: jmp r12, r1 ? r11
       Enc(2, 8, 0, 0),     \* 54: set r8, 0
       Enc(4, 0, 8, 3),     \* 55: sto r8 -> [r3]
       Enc(0, 10, 6, 3)     \* 56: jmp r10, r6 ? r3   to 0xffff
    >> \o HaltCode         \* 57, 58

WrapRuns ==
    { Run(BootDisk(WrapProgram, 1, "left"), NoDisk, in, "left") : in \in Strings(1) }

Runs ==
    AluRuns \cup JumpRuns \cup RomRuns \cup DiskRuns \cup AssemblerRuns \cup AbsentRuns
        \cup BigRuns \cup BusRuns \cup ScenarioRuns \cup WrapRuns

-----------------------------------------------------------------------------
(* machine_state::machine_state *)

NoWrite == [port |-> 0, sector |-> 0, address |-> 0, window |-> <<>>]

Start(r) ==
    /\ pc = 0
    /\ hi = 0
    /\ regs = [i \in Nibble |-> 0]
    /\ memory = <<>>
    /\ disk0 = disk_controller(r.argv[1])
    /\ disk1 = disk_controller(r.argv[2])
    /\ halt = FALSE
    /\ stdin = r.stdin
    /\ stdout = <<>>
    /\ word = 0
    /\ instr = decode(0)
    /\ get_first = r.first
    /\ written = NoWrite
    /\ flushed = 0
    /\ run = r
    /\ main_at = "execute"
    /\ exit_code = <<>>
    /\ cerr = <<>>

Init == \E r \in Runs : Start(r)

\* the runs typed into the interactive assembler
InitAssembler == \E r \in AssemblerRuns : Start(r)

-----------------------------------------------------------------------------
(* execute: one iteration of  while (!halt)  per step. *)

\* memory.read(pc++) and its decoding
Fetched == read(memory, pc)
I == decode(Fetched)
pc1_wide == pc + 1

pc1 == Narrow16(pc + 1)

\* the controller behind bus addresses 1..3 or 4..6
DiskAt(port) == IF port < 4 THEN disk0 ELSE disk1

\* this cycle is a bus write of command `control` to a controller that acts on it
Commands(control) ==
    /\ I.op = 15
    /\ regs[I.src0] \in {1, 4}
    /\ regs[I.src1] = control
    /\ DiskAt(regs[I.src0]).is_open
    /\ DiskAt(regs[I.src0]).sector < DiskAt(regs[I.src0]).sector_count

\* the 256 words at address, address + 1, ... as the memory adapter reads them
Window(mem, address) ==
    [ k \in 0 .. (sector_words - 1) |-> read(mem, Narrow16(address + k)) ]

(* std::cout.put leaves the byte in the stream's buffer: do_bsw does not   *)
(* flush, so after a put cout holds the byte back or writes out all it     *)
(* holds, as the buffering of the build and of the device decides.         *)
(* std::cin is tied to std::cout, so cin.get() flushes cout first; and     *)
(* cout is flushed when main returns, after the cycle that raises halt.    *)
(* The values flushed can take after a cycle of opcode op:                 *)
may_flush(op, port, w) ==
    CASE op = 15 /\ port = 0 -> {flushed, Len(stdout) + 1}
      [] op = 14 /\ port = 0 -> {Len(stdout)}
      [] op = 15 /\ port = 7 /\ w # 0 -> {Len(stdout)}
      [] OTHER -> {flushed}

\* state.halt = word: the conversion of a word to bool
halt_always(w) == TRUE

halt_of(w) == w # 0

\* execute has returned when this cycle is over: the loop ends once halt is
\* raised, and main falls off its end
Returns(op, port, w) == op = 15 /\ port = 7 /\ halt_of(w)

Cycle(op) ==
    /\ main_at = "execute"
    /\ ~halt
    /\ I.op = op
    /\ word' = Fetched
    /\ instr' = I
    /\ written' = IF Commands(1)
                  THEN [ port    |-> regs[I.src0],
                         sector  |-> DiskAt(regs[I.src0]).sector,
                         address |-> DiskAt(regs[I.src0]).address,
                         window  |-> Window(memory, DiskAt(regs[I.src0]).address) ]
                  ELSE written
    /\ flushed' \in may_flush(op, regs[I.src0], regs[I.src1])
    /\ main_at' = IF Returns(op, regs[I.src0], regs[I.src1]) THEN "returned" ELSE main_at
    /\ exit_code' = IF Returns(op, regs[I.src0], regs[I.src1]) THEN <<0>> ELSE exit_code
    /\ UNCHANGED <<get_first, run, cerr>>

\* regs[dst] = v and nothing else
Assign(v) ==
    /\ pc' = pc1
    /\ regs' = [regs EXCEPT ![I.dst] = v]
    /\ UNCHANGED <<hi, memory, disk0, disk1, halt, stdin, stdout>>

\* regs[dst] = c & 0xffff; hi = c >> 16
AssignWide(c) ==
    /\ pc' = pc1
    /\ regs' = [regs EXCEPT ![I.dst] = c.lo]
    /\ hi' = c.hi
    /\ UNCHANGED <<memory, disk0, disk1, halt, stdin, stdout>>

jmp ==
    /\ Cycle(0)
    /\ LET r == do_jmp(pc1, regs, I.dst, I.src1, I.src0)
       IN  pc' = r.pc /\ regs' = r.regs
    /\ UNCHANGED <<hi, memory, disk0, disk1, halt, stdin, stdout>>

\* regs[dst] = hi
rhi_move == Cycle(1) /\ Assign(regs[I.src0])

rhi == Cycle(1) /\ Assign(hi)

\* regs[dst] = src1 << 4 | src0
set_accumulate == Cycle(2) /\ Assign(BitOr(regs[I.dst], BitOr(I.src1 * 16, I.src0)))

set == Cycle(2) /\ Assign(BitOr(I.src1 * 16, I.src0))

lod == Cycle(3) /\ Assign(read(memory, regs[I.src0]))

sto ==
    /\ Cycle(4)
    /\ pc' = pc1
    /\ memory' = write(memory, regs[I.src0], regs[I.src1])
    /\ UNCHANGED <<hi, regs, disk0, disk1, halt, stdin, stdout>>

add == Cycle(5) /\ AssignWide(alu_add(regs[I.src0], regs[I.src1]))

sub == Cycle(6) /\ AssignWide(alu_sub(regs[I.src0], regs[I.src1]))

mul == Cycle(7) /\ AssignWide(alu_mul(regs[I.src0], regs[I.src1]))

div == Cycle(8) /\ AssignWide(alu_div(regs[I.src0], regs[I.src1]))

shl == Cycle(9) /\ Assign(Narrow16(regs[I.src0] * Pow2(I.src1)))

shr == Cycle(10) /\ Assign(ShiftRight(regs[I.src0], I.src1))

And == Cycle(11) /\ Assign(BitAnd(regs[I.src0], regs[I.src1]))

lor == Cycle(12) /\ Assign(BitOr(regs[I.src0], regs[I.src1]))

\* ~x on the promoted int is -x - 1
Not == Cycle(13) /\ Assign(Narrow16(-regs[I.src0] - 1))

\* the word do_bsr reads at a bus address other than the serial port
bus_read_open(port) ==
    CASE port = 1 -> disk0.sector_count
      [] port = 2 -> disk0.sector
      [] port = 3 -> disk0.address
      [] port = 4 -> disk1.sector_count
      [] port = 5 -> disk1.sector
      [] port = 6 -> disk1.address
      [] OTHER -> max_word

bus_read_crossed(port) ==
    CASE port = 1 -> disk0.sector_count
      [] port = 2 -> disk0.sector
      [] port = 3 -> disk0.address
      [] port = 4 -> disk1.sector_count
      [] port = 5 -> disk0.sector
      [] port = 6 -> disk0.address
      [] OTHER -> 0

bus_read(port) ==
    CASE port = 1 -> disk0.sector_count
      [] port = 2 -> disk0.sector
      [] port = 3 -> disk0.address
      [] port = 4 -> disk1.sector_count
      [] port = 5 -> disk1.sector
      [] port = 6 -> disk1.address
      [] OTHER -> 0

\* std::cin.get() & 0xff, where get() is EOF (-1) at the end of input
serial_read_eof_word(in) == IF in = <<>> THEN max_word ELSE Head(in) % 256

serial_read(in) == IF in = <<>> THEN (-1) % 256 ELSE Head(in) % 256

(* do_bsr *)
bsr ==
    /\ Cycle(14)
    /\ pc' = pc1
    /\ LET port == regs[I.src0]
       IN  IF port = 0
           THEN /\ regs' = [regs EXCEPT ![I.dst] = serial_read(stdin)]
                /\ stdin' = IF stdin = <<>> THEN stdin ELSE Tail(stdin)
           ELSE /\ regs' = [regs EXCEPT ![I.dst] = bus_read(port)]
                /\ UNCHANGED stdin
    /\ UNCHANGED <<hi, memory, disk0, disk1, halt, stdout>>

(* do_bsw *)
bsw ==
    /\ Cycle(15)
    /\ pc' = pc1
    /\ LET port == regs[I.src0]
           w    == regs[I.src1]
       IN  CASE port = 0 ->
                  /\ stdout' = Append(stdout, BitAnd(w, 255))
                  /\ UNCHANGED <<memory, disk0, disk1, halt>>
             [] port = 1 ->
                  LET r == do_disk_operation(disk0, memory, w, get_first)
                  IN  /\ disk0' = r.disk
                      /\ memory' = r.memory
                      /\ UNCHANGED <<disk1, halt, stdout>>
             [] port = 2 ->
                  /\ disk0' = [disk0 EXCEPT !.sector = w]
                  /\ UNCHANGED <<memory, disk1, halt, stdout>>
             [] port = 3 ->
                  /\ disk0' = [disk0 EXCEPT !.address = w]
                  /\ UNCHANGED <<memory, disk1, halt, stdout>>
             [] port = 4 ->
                  LET r == do_disk_operation(disk1, memory, w, get_first)
                  IN  /\ disk1' = r.disk
                      /\ memory' = r.memory
                      /\ UNCHANGED <<disk0, halt, stdout>>
             [] port = 5 ->
                  /\ disk1' = [disk1 EXCEPT !.sector = w]
                  /\ UNCHANGED <<memory, disk0, halt, stdout>>
             [] port = 6 ->
                  /\ disk1' = [disk1 EXCEPT !.address = w]
                  /\ UNCHANGED <<memory, disk0, halt, stdout>>
             [] port = 7 ->
                  /\ halt' = halt_of(w)
                  /\ UNCHANGED <<memory, disk0, disk1, stdout>>
             [] OTHER -> UNCHANGED <<memory, disk0, disk1, halt, stdout>>
    /\ UNCHANGED <<hi, regs, stdin>>

Next ==
    \/ jmp \/ rhi \/ set \/ lod \/ sto \/ add \/ sub \/ mul
    \/ div \/ shl \/ shr \/ And \/ lor \/ Not \/ bsr \/ bsw

Spec == Init /\ [][Next]_vars

\* the loop of execute goes on while halt is not raised
SpecFair == InitAssembler /\ [][Next]_vars /\ WF_vars(Next)


-----------------------------------------------------------------------------
(* main *)

\* a path that names no file
Missing == [size |-> -2, data |-> <<>>]

\* "Usage: bedrock <disk0> <disk1>\nUse -- to omit a disk file.\n"
Usage ==
    << 85, 115, 97, 103, 101, 58, 32, 98, 101, 100, 114, 111, 99, 107,
       32, 60, 100, 105, 115, 107, 48, 62, 32, 60, 100, 105, 115, 107,
       49, 62, 10, 85, 115, 101, 32, 45, 45, 32, 116, 111, 32, 111,
       109, 105, 116, 32, 97, 32, 100, 105, 115, 107, 32, 102, 105,
       108, 101, 46, 10 >>

\* the argument "--"
Dashes == [size |-> -3, data |-> <<>>]

\* strcmp(path, "--") == 0 ? nullptr : path; NoDisk is the null pointer
nullptr_if_none(path) == IF path = Dashes THEN NoDisk ELSE path

\* !path || std::filesystem::exists(path)
check_path_any(path) == TRUE

check_path(path) == path = NoDisk \/ path # Missing

\* bounds of the command lines
MaxArgs == 3

Paths == { Dashes, Missing, BootDisk(AluProgram, 1, "left") }

RECURSIVE ArgLists(_)
ArgLists(n) ==
    IF n = 0 THEN { <<>> }
    ELSE { <<a>> \o t : a \in Paths, t \in ArgLists(n - 1) }

\* the command lines of 0 .. MaxArgs arguments, with "2007\nf000\n\n" on
\* standard input
MainRuns ==
    { [argv |-> args, stdin |-> Typed(HaltLines), first |-> "left"] :
        args \in UNION { ArgLists(n) : n \in 0 .. MaxArgs } }

\* the process at the entry of main: no machine_state exists yet, and the
\* machine variables hold what its constructor starts from
InitMain ==
    \E r \in MainRuns :
        /\ pc = 0
        /\ hi = 0
        /\ regs = [i \in Nibble |-> 0]
        /\ memory = <<>>
        /\ disk0 = disk_controller(NoDisk)
        /\ disk1 = disk_controller(NoDisk)
        /\ halt = FALSE
        /\ stdin = r.stdin
        /\ stdout = <<>>
        /\ word = 0
        /\ instr = decode(0)
        /\ get_first = r.first
        /\ written = NoWrite
        /\ flushed = 0
        /\ run = r
        /\ main_at = "entry"
        /\ exit_code = <<>>
        /\ cerr = <<>>

\* main up to the call of execute: argc is Len(run.argv) + 1
main ==
    /\ main_at = "entry"
    /\ IF Len(run.argv) + 1 # 3
       THEN /\ stdout' = stdout \o Usage
            /\ flushed' = Len(stdout')
            /\ main_at' = "returned"
            /\ exit_code' = <<0>>
            /\ UNCHANGED <<disk0, disk1, cerr>>
       ELSE LET path0 == nullptr_if_none(run.argv[1])
                path1 == nullptr_if_none(run.argv[2])
            IN  IF ~(check_path(path0) /\ check_path(path1))
                THEN /\ cerr' = Append(cerr, "does not exist")
                     /\ main_at' = "returned"
                     /\ exit_code' = <<1>>
                     /\ UNCHANGED <<disk0, disk1, stdout, flushed>>
                ELSE /\ disk0' = disk_controller(path0)
                     /\ disk1' = disk_controller(path1)
                     /\ main_at' = "execute"
                     /\ UNCHANGED <<stdout, flushed, exit_code, cerr>>
    /\ UNCHANGED <<pc, hi, regs, memory, halt, stdin, word, instr, get_first, written, run>>

NextMain == main \/ Next

SpecMain == InitMain /\ [][NextMain]_vars

-----------------------------------------------------------------------------
(* decode on its own: every 16-bit word is decoded once. *)

InitDecode ==
    /\ pc = 0
    /\ hi = 0
    /\ regs = [i \in Nibble |-> 0]
    /\ memory = <<>>
    /\ disk0 = disk_controller(NoDisk)
    /\ disk1 = disk_controller(NoDisk)
    /\ halt = FALSE
    /\ stdin = <<>>
    /\ stdout = <<>>
    /\ word \in Word
    /\ instr = [op |-> 0, dst |-> 0, src1 |-> 0, src0 |-> 0]
    /\ get_first = "left"
    /\ written = NoWrite
    /\ flushed = 0
    /\ run = Run(NoDisk, NoDisk, <<>>, "left")
    /\ main_at = "execute"
    /\ exit_code = <<>>
    /\ cerr = <<>>

decode_word ==
    /\ instr' = decode(word)
    /\ UNCHANGED <<pc, hi, regs, memory, disk0, disk1, halt, stdin, stdout, word,
                   get_first, written, flushed, run, main_at, exit_code, cerr>>

NextDecode == decode_word

SpecDecode == InitDecode /\ [][NextDecode]_vars


-----------------------------------------------------------------------------
(* Properties.  In an action formula the unprimed variables are the state *)
(* before a cycle and the primed ones the state after it; instr' is the   *)
(* instruction the cycle executed.                                        *)

Rom == 0 .. (assembler_size - 1)

\* the addresses whose RAM cell differs between two memories
Changed(m, n) ==
    { k + assembler_size : k \in { i \in DOMAIN m \cup DOMAIN n : Cell(m, i) # Cell(n, i) } }

\* the addresses of the 256-word window at address
WindowAt(address) == { Narrow16(address + k) : k \in 0 .. (sector_words - 1) }

\* C1: the ROM invariant.  Before and after every cycle a read of an address
\* a in 0..39 returns the firmware word at a; a store aimed at such an
\* address changes no memory at all, and a disk read command changes only
\* the RAM addresses of its window, dropping the words aimed at 0..39.
C1_RomInvariant ==
    [][ /\ \A a \in Rom : /\ read(memory, a) = assembler[a + 1]
                          /\ read(memory', a) = assembler[a + 1]
        /\ (instr'.op = 4 /\ regs[instr'.src0] \in Rom) => memory' = memory
        /\ Commands(0) =>
              Changed(memory, memory') \subseteq
                  (WindowAt(DiskAt(regs[instr'.src0]).address) \ Rom)
      ]_vars

\* a store of a word that differs from the firmware's, aimed at ROM, was executed
C1_Witness ==
    /\ instr.op = 4
    /\ pc > assembler_size
    /\ regs[instr.src0] \in Rom
    /\ regs[instr.src1] # assembler[regs[instr.src0] + 1]

\* C2: RAM store and load.  A store (opcode 4) of w to an address a in
\* 40..65535 makes a read of a return w and changes no other address; a
\* cycle that is neither a store nor a disk read command leaves memory as
\* it is, so the word stays until a is written again; a load returns, and a
\* fetch decodes, the word that a read of memory gives.
C2_RamStoreLoad ==
    [][ /\ (instr'.op = 4 /\ regs[instr'.src0] >= assembler_size) =>
              /\ read(memory', regs[instr'.src0]) = regs[instr'.src1]
              /\ Changed(memory, memory') \subseteq {regs[instr'.src0]}
        /\ (instr'.op # 4 /\ ~Commands(0)) => memory' = memory
        /\ instr'.op = 3 => regs'[instr'.dst] = read(memory, regs[instr'.src0])
        /\ word' = read(memory, pc)
      ]_vars

\* the word 0xab stored at address 40, the first RAM address, was loaded back
C2_Witness ==
    /\ instr.op = 3
    /\ regs[instr.src0] = assembler_size
    /\ regs[instr.dst] = 171
    /\ read(memory, assembler_size) = 171

\* C3: the halt protocol.  No cycle starts once halt is raised, so pc, the
\* registers, hi, memory and the disks stay as the halting instruction left
\* them; a bus write (opcode 15) to bus address 7 raises halt exactly when
\* the value written is not zero, and changes nothing else but pc.
C3_Halt ==
    [][ /\ ~halt
        /\ (instr'.op = 15 /\ regs[instr'.src0] = 7) =>
              /\ halt' = (regs[instr'.src1] # 0)
              /\ pc' = Narrow16(pc + 1)
              /\ UNCHANGED <<regs, hi, memory, disk0, disk1, stdin, stdout>>
      ]_vars

\* a bus write of a value that is not zero to bus address 7 has ended the run
C3_Witness ==
    /\ halt
    /\ instr.op = 15
    /\ regs[instr.src0] = 7
    /\ regs[instr.src1] # 0

C5_Add ==
    [][ instr'.op = 5 =>
           /\ regs'[instr'.dst] = (regs[instr'.src0] + regs[instr'.src1]) % 65536
           /\ hi' = (regs[instr'.src0] + regs[instr'.src1]) \div 65536
           /\ hi' \in {0, 1}
      ]_vars

\* an add carried out of 16 bits
C5_Witness ==
    /\ instr.op = 5
    /\ hi = 1
    /\ instr.dst \notin {instr.src0, instr.src1}
    /\ regs[instr.dst] = regs[instr.src0] + regs[instr.src1] - 65536

\* the high 16 bits of the 32-bit result of opcode op on x and y
HighHalf(op, x, y) ==
    CASE op = 5 -> (x + y) \div 65536
      [] op = 6 -> IF x >= y THEN 0 ELSE 65535
      [] op = 7 -> ((x \div 256) * y + ((x % 256) * y) \div 256) \div 256
      [] op = 8 -> IF y = 0 THEN 65535 ELSE 0

C7_Divide ==
    [][ instr'.op = 8 =>
           IF regs[instr'.src1] = 0
           THEN regs'[instr'.dst] = 65535 /\ hi' = 65535
           ELSE /\ regs'[instr'.dst] = regs[instr'.src0] \div regs[instr'.src1]
                /\ hi' = 0
      ]_vars

\* a division by zero was executed
C7_Witness ==
    /\ instr.op = 8
    /\ instr.dst # instr.src1
    /\ regs[instr.src1] = 0
    /\ regs[instr.dst] = 65535
    /\ hi = 65535

\* C8: decode is total and exact.  For every 16-bit word w, decode(w) has
\* op = w >> 12, dst = (w >> 8) & 15, src1 = (w >> 4) & 15, src0 = w & 15,
\* op is one of the 16 opcodes, and the four fields put together again are w.
C8_Decode ==
    [][ /\ instr'.op = word \div 4096
        /\ instr'.dst = (word \div 256) % 16
        /\ instr'.src1 = (word \div 16) % 16
        /\ instr'.src0 = word % 16
        /\ instr'.op \in opcode
        /\ instr'.op * 4096 + instr'.dst * 256 + instr'.src1 * 16 + instr'.src0 = word
      ]_vars

\* the word 0xfa53 was decoded
C8_Witness ==
    /\ word = 64083
    /\ instr = [op |-> 15, dst |-> 10, src1 |-> 5, src0 |-> 3]

\* C9: a disk write moves exactly one sector.  A command 1 to an attached
\* controller with sector < sector_count sets the 512 bytes of the file at
\* sector * 512 .. sector * 512 + 511 to the words read at address + k,
\* k = 0..255, high byte first, and leaves every other byte of the file, and
\* its length, as they were.
C9_WriteOneSector ==
    [][ Commands(1) =>
           LET d      == DiskAt(regs[instr'.src0])
               after  == IF regs[instr'.src0] < 4 THEN disk0'.file ELSE disk1'.file
               base   == 512 * d.sector
               inside == base .. (base + 511)
               w(o)   == read(memory, Narrow16(d.address + ((o - base) \div 2)))
           IN  /\ after.size = d.file.size
               /\ \A o \in inside :
                     Cell(after.data, o) =
                        IF (o - base) % 2 = 0 THEN w(o) \div 256 ELSE w(o) % 256
               /\ \A o \in (DOMAIN d.file.data \cup DOMAIN after.data) \ inside :
                     Cell(after.data, o) = Cell(d.file.data, o)
      ]_vars

C12_OutOfRange ==
    [][ ( /\ instr'.op = 15
          /\ regs[instr'.src0] \in {1, 4}
          /\ regs[instr'.src1] \in {0, 1}
          /\ DiskAt(regs[instr'.src0]).sector >= DiskAt(regs[instr'.src0]).sector_count )
        => /\ pc' = Narrow16(pc + 1)
           /\ UNCHANGED <<memory, disk0, disk1, regs, hi, halt, stdin, stdout>>
      ]_vars

\* a write command was issued to an attached disk with its sector register
\* beyond the last sector
C12_Witness ==
    /\ instr.op = 15
    /\ regs[instr.src0] \in {1, 4}
    /\ regs[instr.src1] = 1
    /\ DiskAt(regs[instr.src0]).is_open
    /\ DiskAt(regs[instr.src0]).sector >= DiskAt(regs[instr.src0]).sector_count

\* C13: an absent controller.  A controller started without a file has
\* sector_count 0 in every state and a bus read of its size port returns 0;
\* a bus write of any value to its command port changes nothing but pc.
C13_AbsentController ==
    [][ /\ \A p \in {1, 4} :
             ~DiskAt(p).is_open => (DiskAt(p).sector_count = 0 /\ DiskAt(p).file = NoDisk)
        /\ ( /\ instr'.op = 14
             /\ regs[instr'.src0] \in {1, 4}
             /\ ~DiskAt(regs[instr'.src0]).is_open )
           => regs'[instr'.dst] = 0
        /\ ( /\ instr'.op = 15
             /\ regs[instr'.src0] \in {1, 4}
             /\ ~DiskAt(regs[instr'.src0]).is_open )
           => /\ pc' = Narrow16(pc + 1)
              /\ UNCHANGED <<memory, disk0, disk1, regs, hi, halt, stdin, stdout>>
      ]_vars

\* a write command was sent to the controller of disk1, which has no file
C13_Witness ==
    /\ instr.op = 15
    /\ regs[instr.src0] = 4
    /\ regs[instr.src1] = 1
    /\ ~disk1.is_open
    /\ pc > assembler_size

\* C14: an unknown disk command.  A bus write of a value other than 0 or 1
\* to a command port (bus address 1 or 4) leaves memory, the bytes of both
\* disks and the registers of both controllers as they were.
C14_UnknownCommand ==
    [][ ( /\ instr'.op = 15
          /\ regs[instr'.src0] \in {1, 4}
          /\ regs[instr'.src1] \notin {0, 1} )
        => UNCHANGED <<memory, disk0, disk1>>
      ]_vars

\* a command other than 0 and 1 was sent to an attached controller whose
\* sector register is in range
C14_Witness ==
    /\ instr.op = 15
    /\ regs[instr.src0] \in {1, 4}
    /\ regs[instr.src1] \notin {0, 1}
    /\ DiskAt(regs[instr.src0]).is_open
    /\ DiskAt(regs[instr.src0]).sector < DiskAt(regs[instr.src0]).sector_count

\* the number of sectors a controller detects in a file of size bytes
Detected(size) ==
    IF size \div 512 < 65535 THEN size \div 512 ELSE 65535

\* C15: sector_count is fixed at attach.  At reset it is
\* min(floor(file size / 512), 0xffff) for an attached controller; no cycle
\* changes it, whatever is written to the bus and whatever a disk command
\* does to the file, and a bus read of address 1 or 4 returns it.
C15_SectorCountFixed ==
    /\ \A p \in {1, 4} :
          DiskAt(p).is_open => DiskAt(p).sector_count = Detected(DiskAt(p).file.size)
    /\ [][ /\ disk0'.sector_count = disk0.sector_count
           /\ disk1'.sector_count = disk1.sector_count
           /\ (instr'.op = 14 /\ regs[instr'.src0] \in {1, 4}) =>
                 regs'[instr'.dst] = DiskAt(regs[instr'.src0]).sector_count
         ]_vars

\* the size port of a disk of more than 0xffff sectors was read as 0xffff
C15_Witness ==
    /\ instr.op = 14
    /\ regs[instr.src0] = 4
    /\ regs[instr.dst] = 65535
    /\ disk1.file.size > 512 * 65535

\* the sector and address registers of the two controllers, by bus address
Register(d0, d1, port) ==
    CASE port = 2 -> d0.sector
      [] port = 3 -> d0.address
      [] port = 5 -> d1.sector
      [] port = 6 -> d1.address

\* C16: the sector and address registers.  For each controller, with or
\* without a file, the register behind bus address 2, 3, 5 or 6 is 0 at
\* reset, becomes the word bus-written to that address and is changed by
\* nothing else, and a bus read of the address returns it; a bus write to
\* such an address changes no memory, no disk byte and no other register of
\* either controller.
C16_SectorAddressRegisters ==
    /\ \A p \in {2, 3, 5, 6} : Register(disk0, disk1, p) = 0
    /\ [][ /\ \A p \in {2, 3, 5, 6} :
                Register(disk0', disk1', p) =
                   IF instr'.op = 15 /\ regs[instr'.src0] = p
                   THEN regs[instr'.src1]
                   ELSE Register(disk0, disk1, p)
           /\ (instr'.op = 14 /\ regs[instr'.src0] \in {2, 3, 5, 6}) =>
                 regs'[instr'.dst] = Register(disk0, disk1, regs[instr'.src0])
           /\ (instr'.op = 15 /\ regs[instr'.src0] \in {2, 3, 5, 6}) =>
                 /\ memory' = memory
                 /\ disk0'.file = disk0.file /\ disk1'.file = disk1.file
                 /\ disk0'.sector_count = disk0.sector_count
                 /\ disk1'.sector_count = disk1.sector_count
         ]_vars

\* the sector port of disk1 was read back after a word above 255 was written
\* to it, with the sector register of disk0 still 0
C16_Witness ==
    /\ instr.op = 14
    /\ regs[instr.src0] = 5
    /\ regs[instr.dst] > 255
    /\ regs[instr.dst] = disk1.sector
    /\ disk0.sector = 0

\* C17: unassigned bus addresses.  A bus read from address 7 or from any
\* address in 8..0xffff sets R[dst] to 0 and changes nothing else but pc; a
\* bus write to an address in 8..0xffff changes nothing but pc: registers,
\* hi, memory, controllers, disks and halt stay as they were and no byte is
\* put on standard output.
C17_UnassignedBus ==
    [][ /\ (instr'.op = 14 /\ regs[instr'.src0] >= 7) =>
              /\ regs' = [regs EXCEPT ![instr'.dst] = 0]
              /\ pc' = Narrow16(pc + 1)
              /\ UNCHANGED <<hi, memory, disk0, disk1, halt, stdin, stdout>>
        /\ (instr'.op = 15 /\ regs[instr'.src0] >= 8) =>
              /\ pc' = Narrow16(pc + 1)
              /\ UNCHANGED <<regs, hi, memory, disk0, disk1, halt, stdin, stdout>>
      ]_vars

\* bus address 0xffff was read into a register other than the one holding
\* the address
C17_Witness ==
    /\ instr.op = 14
    /\ instr.dst # instr.src0
    /\ regs[instr.src0] = 65535
    /\ regs[instr.dst] = 0

\* C18 as stated: a serial read.  A bus read from address 0 sets R[dst] to
\* the next byte of standard input, zero-extended, and consumes exactly that
\* byte; at the end of input it sets R[dst] to 0xffff and consumes nothing.
C18_SerialRead ==
    [][ (instr'.op = 14 /\ regs[instr'.src0] = 0) =>
           IF stdin # <<>>
           THEN /\ regs'[instr'.dst] = Head(stdin)
                /\ regs'[instr'.dst] < 256
                /\ stdin' = Tail(stdin)
           ELSE /\ regs'[instr'.dst] = 65535
                /\ stdin' = stdin
      ]_vars

\* C18 amended: as C18, but at the end of input R[dst] is set to 0x00ff, the
\* low 8 bits of the end-of-file value, which is what a byte 0xff reads as.
C18_SerialReadMasked ==
    [][ (instr'.op = 14 /\ regs[instr'.src0] = 0) =>
           /\ \A r \in Nibble \ {instr'.dst} : regs'[r] = regs[r]
           /\ IF stdin # <<>>
              THEN /\ regs'[instr'.dst] = Head(stdin)
                   /\ regs'[instr'.dst] < 256
                   /\ stdin' = Tail(stdin)
              ELSE /\ regs'[instr'.dst] = 255
                   /\ stdin' = stdin
      ]_vars

\* the serial port was read twice at the end of input
C18_Witness ==
    /\ instr.op = 14
    /\ regs[instr.src0] = 0
    /\ stdin = <<>>
    /\ instr.dst = 13
    /\ regs[11] = 255
    /\ regs[13] = 255

\* C19: serial write ordering.  A bus write to address 0 appends exactly one
\* byte, the low 8 bits of R[src1], to the output, and after every cycle all
\* the bytes written so far have reached standard output, so that what is
\* visible at an instruction boundary is what was written, in program order.
C19_SerialWriteFlushed ==
    [][ /\ stdout' = IF instr'.op = 15 /\ regs[instr'.src0] = 0
                     THEN Append(stdout, regs[instr'.src1] % 256)
                     ELSE stdout
        /\ flushed' = Len(stdout')
      ]_vars

\* control has just reached 0x28 from the firmware's jump at address 9,
\* which links in r0; r2 holds the link of the firmware's jump at address 4
BootEntry ==
    /\ pc = 40
    /\ word = assembler[10]
    /\ regs[0] = 10
    /\ regs[2] = 5

\* C20 as stated: the firmware's disk boot.  From reset with disk0 attached
\* and sector_count >= 1 the firmware reads sector 0 and jumps to 0x28; when
\* pc first is 0x28 the 256 words of sector 0 are at addresses 40..295 and
\* addresses 0..39 hold the firmware.
C20_FirmwareBoot ==
    (BootEntry /\ disk0.is_open /\ disk0.sector_count >= 1) =>
       /\ \A k \in 0 .. 255 :
             read(memory, 40 + k) =
                Cell(disk0.file.data, 2 * k) * 256 + Cell(disk0.file.data, 2 * k + 1)
       /\ \A a \in Rom : read(memory, a) = assembler[a + 1]

\* C20 amended: the firmware reads sector 0 to address 0, not 40.  When pc
\* first is 0x28 the sector and address registers of disk0 are 0, each
\* address a in 40..255 holds word a of sector 0 (made of bytes 2a and 2a + 1
\* of the file, in the byte order of the disk read), words 0..39 of the
\* sector are dropped, every address from 256 on is still zero, and
\* addresses 0..39 hold the firmware.
C20_FirmwareBootAtZero ==
    (BootEntry /\ disk0.is_open /\ disk0.sector_count >= 1) =>
       /\ disk0.sector = 0
       /\ disk0.address = 0
       /\ \A a \in 40 .. 255 :
             read(memory, a) \in
                { Cell(disk0.file.data, 2 * a) * 256 + Cell(disk0.file.data, 2 * a + 1),
                  Cell(disk0.file.data, 2 * a + 1) * 256 + Cell(disk0.file.data, 2 * a) }
       /\ \A i \in DOMAIN memory : i + assembler_size <= 255
       /\ \A a \in Rom : read(memory, a) = assembler[a + 1]

\* the firmware has booted a disk whose sector 0 is not zero at word 40
C20_Witness ==
    /\ BootEntry
    /\ disk0.is_open
    /\ disk0.sector_count >= 1
    /\ read(memory, 40) # 0
    /\ read(memory, 40) # Cell(disk0.file.data, 0) * 256 + Cell(disk0.file.data, 1)


-----------------------------------------------------------------------------
\* nothing has been taken from standard input yet
NothingConsumed == stdin = run.stdin

\* no RAM cell holds anything but zero, and the disk files are as they were
Untouched ==
    /\ memory = <<>>
    /\ disk0.file = run.argv[1]
    /\ disk1.file = run.argv[2]

\* C21: the firmware's disk-less boot.  From reset with disk0 reporting a
\* sector count of 0, the run reaches the bus read of port 0 at firmware
\* address 0x0A with nothing consumed from standard input and with no RAM
\* cell and no disk byte modified; until then no cycle consumes a byte of
\* standard input or modifies RAM or a disk, and the first byte is consumed
\* by the read at address 0x0A.
C21_DisklessBoot ==
    /\ [][ (disk0.sector_count = 0 /\ NothingConsumed) =>
              /\ Untouched'
              /\ (stdin' # stdin =>
                     /\ pc = 10
                     /\ Fetched = assembler[11]
                     /\ I.op = 14
                     /\ regs[I.src0] = 0) ]_vars
    /\ (disk0.sector_count = 0 =>
          <>(pc = 10 /\ regs[12] = 0 /\ NothingConsumed /\ Untouched))

\* with no sector on disk0, the read at 0x0A has just taken the first byte of
\* standard input, and RAM and the disk files are as they were
C21_Witness ==
    /\ disk0.sector_count = 0
    /\ pc = 11
    /\ word = assembler[11]
    /\ Len(stdin) + 1 = Len(run.stdin)
    /\ regs[2] = run.stdin[1]
    /\ Untouched

-----------------------------------------------------------------------------
\* the number of bytes taken from standard input so far
Consumed == Len(run.stdin) - Len(stdin)

IsHex(c) == c \in (48 .. 57) \cup (97 .. 102)

\* the value of the hexadecimal digit with character code c
HexValue(c) == IF c <= 57 THEN c - 48 ELSE c - 87

\* characters 5k + 1 .. 5k + 5 of the input are four hexadecimal digits and a
\* newline
WholeLine(k) ==
    /\ 5 * k + 5 <= Len(run.stdin)
    /\ \A j \in 1 .. 4 : IsHex(run.stdin[5 * k + j])
    /\ run.stdin[5 * k + 5] = 10

\* the number of such lines the input starts with
TypedLines ==
    Cardinality({ k \in 0 .. (Len(run.stdin) \div 5) : \A j \in 0 .. k : WholeLine(j) })

\* the value of line k, its first digit the most significant nibble
LineWord(k) ==
    HexValue(run.stdin[5 * k + 1]) * 4096 + HexValue(run.stdin[5 * k + 2]) * 256
        + HexValue(run.stdin[5 * k + 3]) * 16 + HexValue(run.stdin[5 * k + 4])

\* C22: word entry in the interactive assembler.  With no sector on disk0 and
\* an input that starts with lines of exactly four characters of '0'..'9',
\* 'a'..'f', each followed by a newline: as long as only such lines have
\* been consumed, once line k (k = 0, 1, 2, ...) and its newline are consumed
\* address 0x28 + k holds the 16-bit value of its four digits, the first
\* digit the most significant nibble, and no RAM address holds a word but
\* 0x28 + k for a line k whose four digits have been consumed.
C22_WordEntry ==
    (disk0.sector_count = 0 /\ Consumed <= 5 * TypedLines) =>
       /\ \A k \in 0 .. (TypedLines - 1) :
             Consumed >= 5 * k + 5 => read(memory, 40 + k) = LineWord(k)
       /\ \A i \in DOMAIN memory : i < TypedLines /\ Consumed >= 5 * i + 4

\* four lines are consumed, the fourth the third one reversed, and their
\* words are in place
C22_Witness ==
    /\ disk0.sector_count = 0
    /\ TypedLines = 4
    /\ Consumed = 20
    /\ LineWord(2) < 4096
    /\ LineWord(3) > 32768
    /\ read(memory, 42) = LineWord(2)
    /\ read(memory, 43) = LineWord(3)
    /\ read(memory, 44) = 0

-----------------------------------------------------------------------------
\* the assembler's nibble counter re says a word boundary was just crossed
StartOfLine == BitAnd(regs[14], 3) = 0

\* the assembler is about to read a newline at the start of a line
NewlineRead ==
    /\ pc = 10
    /\ regs[12] = 0
    /\ regs[11] = 40
    /\ stdin # <<>>
    /\ Head(stdin) = 10
    /\ StartOfLine

\* the assembler is between that read and its jump to 0x28
OnNewline ==
    /\ pc \in 11 .. 15
    /\ word = assembler[pc]
    /\ regs[2] = 10
    /\ regs[11] = 40
    /\ StartOfLine

\* C23: the assembler's run trigger.  When the read at 0x0A takes a newline
\* at the start of a line (no nibble accumulated since the last stored word,
\* or no word entered yet), the next five cycles are the firmware's 0x0B to
\* 0x0F, the last of them transfers control to 0x28, and no cycle from the
\* read to the transfer changes RAM: the stored words are intact.
C23_RunTrigger ==
    [][ /\ NewlineRead => (pc' = 11 /\ OnNewline' /\ memory' = memory)
        /\ OnNewline =>
              /\ memory' = memory
              /\ IF pc = 15 THEN pc' = 40 ELSE (pc' = pc + 1 /\ OnNewline') ]_vars

\* control has just been transferred to 0x28 by the jump at 0x0F, after the
\* empty line that follows three stored words
C23_Witness ==
    /\ pc = 40
    /\ word = assembler[16]
    /\ regs[2] = 10
    /\ Consumed = 5 * TypedLines + 1
    /\ TypedLines = 3
    /\ \A k \in 0 .. 2 : read(memory, 40 + k) = LineWord(k)

-----------------------------------------------------------------------------
\* scenario S1: both disks absent, "2007\nf000\n\n" on standard input
S1 == Run(NoDisk, NoDisk, Typed(HaltLines), "left")

\* halt has been raised by the assembled bus write of a word that is not zero
\* to port 7
HaltedByGuest ==
    /\ halt
    /\ pc = 42
    /\ word = 61440
    /\ instr.op = 15
    /\ regs[instr.src0] = 7
    /\ regs[instr.src1] # 0

\* C24: scenario S1.  With both disks absent and "2007\nf000\n\n" on standard
\* input the run eventually halts, the halt flag raised by the assembled bus
\* write of a non-zero value to port 7, and no byte is ever written to
\* standard output.
C24_ImmediateHalt ==
    /\ (run = S1 => <>(HaltedByGuest /\ stdout = <<>> /\ stdin = <<>>))
    /\ [](run = S1 => stdout = <<>>)

\* the run of S1 has halted with nothing on standard output
C24_Witness == run = S1 /\ HaltedByGuest /\ stdout = <<>> /\ flushed = 0

-----------------------------------------------------------------------------
\* scenario S2: both disks absent, "2101\ne010\nf010\n2007\nf000\n\nA" on
\* standard input
S2 == Run(NoDisk, NoDisk, Typed(EchoLines \o HaltLines) \o <<65>>, "left")

\* C25 as stated: scenario S2.  The run halts with exactly the byte 'A' on
\* standard output.
C25_Echo == (run = S2 /\ halt) => stdout = <<65>>

\* C25 amended: the run of S2 halts, and when it has halted standard output
\* is exactly the byte 0x01 and the byte 'A' is still unread: the assembled
\* bsr r0, [r0] reads bus address 0x10 (r0 holds the link of the firmware's
\* jump to 0x28), which is unassigned and reads 0, and bsw r1 -> [r0] writes
\* the low byte of r1 = 1 to the serial port.
C25_EchoOne ==
    /\ (run = S2 => <>(halt /\ pc = 45 /\ word = 61440))
    /\ [](run = S2 =>
            /\ stdout \in { <<>>, <<1>> }
            /\ halt => (stdout = <<1>> /\ stdin = <<65>> /\ flushed = 1))

\* the run of S2 has halted after its bus write to the serial port
C25_Witness ==
    /\ run = S2
    /\ halt
    /\ stdout # <<>>
    /\ regs[1] = 1
    /\ regs[0] = 7
    /\ read(memory, 41) = 57360

-----------------------------------------------------------------------------
\* C26 as stated: scenario S3.  From r0 = 5 and r1 = 0, the word 0x8201
\* followed by the word 0x1300 leaves r2 = 0xffff and r3 = 0xffff.
C26_DivideByZero ==
    (run = S3 /\ pc = 44) => (regs[2] = 65535 /\ regs[3] = 65535)

\* C26 amended: 0x8201 decodes to dst = 2, src1 = 0, src0 = 1 and divides r1
\* by r0.  From r0 = 5 and r1 = 0 the word 0x8201 followed by 0x1300 leaves
\* r2 = 0 and r3 = 0; the division of r0 by r1 is the word 0x8210, and 0x8210
\* followed by 0x1300 leaves r2 = 0xffff and r3 = 0xffff.
C26_DivideWords ==
    /\ (run = S3 /\ pc \in 42 .. 46) => (regs[0] = 5 /\ regs[1] = 0)
    /\ (run = S3 /\ pc = 44) => (regs[2] = 0 /\ regs[3] = 0 /\ hi = 0)
    /\ (run = S3 /\ pc = 46) => (regs[2] = 65535 /\ regs[3] = 65535 /\ hi = 65535)

\* the run of S3 has executed 0x8210 and 0x1300
C26_Witness ==
    /\ run = S3
    /\ pc = 46
    /\ word = 4864
    /\ read(memory, 44) = 33296
    /\ read(memory, 42) = 33281
    /\ regs[3] = max_word

\* C27 as stated: scenario S4.  The words 0x20ab, 0x2100, 0x4010, 0x3210
\* leave r2 equal to the firmware's word at address 0, and not 0x00ab.
C27_RomProtection ==
    (run = S4 /\ pc = 44) => (regs[2] = assembler[1] /\ regs[2] # 171)

\* C27 amended: 0x4010 stores r1 at the address in r0 and 0x3210 loads from
\* the address in r0.  The words 0x20ab, 0x2100, 0x4010, 0x3210 store 0 at
\* RAM address 0xab and leave r2 = 0; it is the words 0x20ab, 0x2100, 0x4001,
\* 0x3201 that store to ROM address 0 and load it: the store is dropped (no
\* memory changes) and r2 is the firmware's word at address 0, not 0x00ab.
C27_RomProtectionWords ==
    /\ (run = S4 /\ pc \in 42 .. 46) =>
          /\ regs[0] = 171
          /\ regs[1] = 0
          /\ \A i \in DOMAIN memory : i + assembler_size \in 40 .. 47
    /\ (run = S4 /\ pc = 44) => (regs[2] = 0 /\ read(memory, 171) = 0)
    /\ (run = S4 /\ pc = 46) => (regs[2] = assembler[1] /\ regs[2] # 171)

\* the run of S4 has executed 0x4001 and 0x3201
C27_Witness ==
    /\ run = S4
    /\ pc = 46
    /\ word = 12801
    /\ regs[2] = 8193
    /\ read(memory, 0) = 8193

\* C28 as stated: scenario S6.  Immediately after the jump 0x0210 at 0x2a
\* executes, r2 holds 0x2a and pc is 0x30.
C28_JumpLink ==
    (run = S6 /\ word = 528) => (regs[2] = 42 /\ pc = 48)

\* C28 amended: the jump is the third word, at address 0x2a, so the address
\* that follows it is 0x2b.  Immediately after the jump executes r2 holds
\* 0x2b and pc is 0x30.
C28_JumpLinkNext ==
    (run = S6 /\ word = 528) =>
       /\ regs[2] = 43
       /\ pc = 48
       /\ regs[0] = 48
       /\ regs[1] = 1
       /\ read(memory, 42) = 528

\* the run of S6 has just executed its jump
C28_Witness == run = S6 /\ word = 528 /\ instr.op = 0 /\ instr.dst = 2 /\ pc = 48

-----------------------------------------------------------------------------
-----------------------------------------------------------------------------
\* a disk argument that is neither "--" nor an existing file
BadPath(path) == path # Dashes /\ path = Missing

\* there are not exactly two disk arguments, or one of the two is bad
ArgumentError ==
    \/ Len(run.argv) # 2
    \/ \E i \in 1 .. Len(run.argv) : BadPath(run.argv[i])

\* no guest instruction has been executed
NothingExecuted ==
    /\ pc = 0
    /\ word = 0
    /\ regs = [i \in Nibble |-> 0]
    /\ memory = <<>>
    /\ stdin = run.stdin
    /\ ~halt

-----------------------------------------------------------------------------
\* C31: set (opcode 2).  Whatever R[dst] held, after the instruction R[dst]
\* is (src1 << 4) | src0, a value of 0..255; the previous contents of R[dst]
\* have no part in it, and no other register, hi or memory changes.
C31_Set ==
    [][ instr'.op = 2 =>
          /\ regs' = [regs EXCEPT ![instr'.dst] = instr'.src1 * 16 + instr'.src0]
          /\ regs'[instr'.dst] \in 0 .. 255
          /\ UNCHANGED <<hi, memory, disk0, disk1, halt, stdin, stdout>> ]_vars

\* set r9, 0xab has just replaced the 0xffff that r9 had loaded from address
\* 0xffff
C31_Witness ==
    /\ word = Enc(2, 9, 10, 11)
    /\ instr.op = 2
    /\ pc = 66
    /\ regs[9] = 171
    /\ regs[2] = 65535
    /\ read(memory, 65535) = 65535

-----------------------------------------------------------------------------
\* C32: subtract (opcode 6).  With x = R[src0] and y = R[src1] before the
\* instruction, afterwards R[dst] = (x - y) mod 2^16, and hi is 0xffff
\* exactly when x < y (a borrow) and 0 otherwise.
C32_Subtract ==
    [][ instr'.op = 6 =>
          LET x == regs[instr'.src0]
              y == regs[instr'.src1]
          IN  /\ regs'[instr'.dst] = IF x >= y THEN x - y ELSE x - y + 65536
              /\ hi' = IF x < y THEN 65535 ELSE 0
              /\ hi' = 65535 <=> x < y ]_vars

\* sub r6, r1 - r2 has just borrowed: r1 < r2
C32_Witness ==
    /\ instr = [op |-> 6, dst |-> 6, src1 |-> 2, src0 |-> 1]
    /\ pc = 51
    /\ regs[1] < regs[2]
    /\ regs[1] > 0
    /\ regs[6] = regs[1] - regs[2] + 65536
    /\ hi = 65535

-----------------------------------------------------------------------------
\* C33: the program counter wraps.  pc is always in 0..0xffff.  The cycle
\* that fetches the instruction at pc = 0xffff leaves pc = 0 before it
\* executes: unless it is a taken jump the next fetch is the firmware's word
\* at address 0, and a taken jump located at 0xffff stores the link 0.
C33_PcWrap ==
    /\ [](pc \in 0 .. 65535)
    /\ [][ pc = 65535 =>
              /\ word' = read(memory, 65535)
              /\ IF instr'.op = 0 /\ regs[instr'.src1] # 0
                 THEN /\ regs'[instr'.dst] = 0
                      /\ pc' = regs[instr'.src0]
                 ELSE /\ pc' = 0
                      /\ Fetched' = assembler[1] ]_vars

\* the jump at 0xffff was taken and has stored the link 0 in r5
C33_Witness ==
    /\ word = 1383
    /\ instr = [op |-> 0, dst |-> 5, src1 |-> 6, src0 |-> 7]
    /\ read(memory, 65535) = 1383
    /\ regs[10] = 57
    /\ regs[5] = 0
    /\ pc = 57

-----------------------------------------------------------------------------
\* the last instruction executed is a bus write of a word that is not zero to
\* bus address 7
HaltingWrite ==
    /\ instr.op = 15
    /\ regs[instr.src0] = 7
    /\ regs[instr.src1] # 0

\* C34: halt is raised only through the bus.  In every state halt is false
\* unless a bus write with R[src0] = 7 and R[src1] not zero has executed: the
\* only cycle after which halt is raised is such a write, whatever the
\* opcodes, bus addresses, disk commands and input bytes of the run, and
\* execute does not return, so the run does not end normally, without it.
C34_HaltOnlyByBus ==
    /\ [](halt => HaltingWrite)
    /\ [](main_at = "returned" => halt /\ exit_code = <<0>>)
    /\ [][ halt' =>
              /\ instr'.op = 15
              /\ regs[instr'.src0] = 7
              /\ regs[instr'.src1] # 0 ]_vars

\* the run has written 0 to bus address 7 and gone on, and has ended with a
\* write of 7 to it
C34_Witness ==
    /\ halt
    /\ main_at = "returned"
    /\ HaltingWrite
    /\ regs[1] = 0
    /\ regs[2] = 90
    /\ read(memory, 51) = Enc(15, 0, 1, 0)

-----------------------------------------------------------------------------
\* the read command about to execute has a window that passes 0xffff
WrappingRead ==
    /\ Commands(0)
    /\ DiskAt(regs[I.src0]).address + (sector_words - 1) > max_word

\* C35: the window of a disk transfer wraps modulo 2^16.  A read command
\* with address A where A + 255 > 0xffff writes word k of the sector (its
\* bytes 2k and 2k + 1, in the byte order of the disk read) to address
\* (A + k) mod 2^16 for each k in 0..255; the words whose wrapped address is
\* in 0..39 are dropped, those addresses still reading the firmware, and no
\* address outside the wrapped window changes.
C35_WindowWraps ==
    [][ WrappingRead =>
           LET d    == DiskAt(regs[I.src0])
               base == 512 * d.sector
               b(o) == Cell(d.file.data, base + o)
           IN  /\ \A k \in 0 .. 255 :
                     LET a == (d.address + k) % 65536
                     IN  IF a >= 40
                         THEN read(memory', a) \in
                                 { b(2 * k) * 256 + b(2 * k + 1),
                                   b(2 * k + 1) * 256 + b(2 * k) }
                         ELSE read(memory', a) = assembler[a + 1]
               /\ \A a \in Changed(memory, memory') :
                     /\ a \in 40 .. 65535
                     /\ \E k \in 0 .. 255 : a = (d.address + k) % 65536
      ]_vars

\* a read command with address 0xffff has just put word 41 of its sector,
\* which is not zero, at address 40
C35_Witness ==
    /\ instr.op = 15
    /\ regs[instr.src0] \in {1, 4}
    /\ regs[instr.src1] = 0
    /\ DiskAt(regs[instr.src0]).is_open
    /\ DiskAt(regs[instr.src0]).sector < DiskAt(regs[instr.src0]).sector_count
    /\ DiskAt(regs[instr.src0]).address = 65535
    /\ read(memory, 40) # 0
    /\ read(memory, 40) =
          GetWord(DiskAt(regs[instr.src0]).file,
                  512 * DiskAt(regs[instr.src0]).sector + 82, get_first)

-----------------------------------------------------------------------------
\* C36: the assembler's end-of-line disposal.  After the fourth nibble of a
\* word has been stored, the read at 0x25 consumes exactly one further byte
\* and, whatever that byte is (0x00..0xff), the next two cycles bring control
\* back to the read loop at 0x0A: the byte is not interpreted (no nibble is
\* shifted in or counted, nothing is stored) and control does not go to 0x28.
C36_Disposal ==
    [][ /\ (pc = 37 /\ regs[12] = 0 /\ stdin # <<>>) =>
              /\ stdin' = Tail(stdin)
              /\ pc' = 38
              /\ regs'[0] = Head(stdin)
              /\ memory' = memory
              /\ \A i \in 13 .. 15 : regs'[i] = regs[i]
        /\ (pc = 38 /\ word = assembler[38]) =>
              /\ pc' = 39
              /\ UNCHANGED <<stdin, memory>>
              /\ \A i \in 13 .. 15 : regs'[i] = regs[i]
        /\ (pc = 39 /\ word = assembler[39]) =>
              /\ pc' = 10
              /\ UNCHANGED <<stdin, memory>>
              /\ \A i \in 13 .. 15 : regs'[i] = regs[i] ]_vars

-----------------------------------------------------------------------------
\* a cycle of the assembler (firmware addresses 0x0A..0x27) hands control to
\* 0x28
ReachesCode == pc \in 10 .. 39 /\ pc' = 40

\* the assembler is between the read of a newline and its jump to 0x28,
\* whatever the number of nibbles pending
OnAnyNewline ==
    /\ pc \in 11 .. 15
    /\ word = assembler[pc]
    /\ regs[2] = 10
    /\ regs[11] = 40

\* C37 as stated: the assembler never runs a half-entered word.  Control
\* reaches 0x28 only when a newline is read with zero nibbles pending since
\* the last stored word, hence, as the claim's second sentence says, a newline
\* read after 1, 2 or 3 nibbles of a word does not transfer control to 0x28.
C37_NoHalfWord ==
    [][ (OnAnyNewline /\ ~StartOfLine) => pc' # 40 ]_vars

\* C37 amended: while the assembler is active control reaches 0x28 only by
\* the jump at 0x0F after a newline was read at 0x0A, or by falling through
\* the jump at 0x27 after the byte disposed of at 0x25 was 0x00.  Every
\* newline read at 0x0A transfers control to 0x28, also after 1, 2 or 3
\* nibbles of a word: the pending nibbles stay in the accumulator and the
\* nibble count, they are not stored, and RAM is as the completed words left
\* it.
C37_RunsOnAnyNewline ==
    [][ /\ ReachesCode =>
              \/ pc = 15 /\ OnAnyNewline
              \/ pc = 39 /\ word = assembler[39] /\ regs[0] = 0
        /\ ( /\ pc = 10
             /\ regs[12] = 0
             /\ regs[11] = 40
             /\ stdin # <<>>
             /\ Head(stdin) = 10 ) =>
              /\ pc' = 11
              /\ OnAnyNewline'
              /\ memory' = memory
              /\ \A i \in 13 .. 15 : regs'[i] = regs[i]
        /\ OnAnyNewline =>
              /\ memory' = memory
              /\ \A i \in 13 .. 15 : regs'[i] = regs[i]
              /\ IF pc = 15 THEN pc' = 40 ELSE (pc' = pc + 1 /\ OnAnyNewline') ]_vars

\* a newline read after two nibbles of a third word has transferred control
\* to 0x28; the two completed words are in place and nothing else is stored
C37_Witness ==
    /\ pc = 40
    /\ word = assembler[16]
    /\ regs[2] = 10
    /\ BitAnd(regs[14], 3) = 2
    /\ regs[15] % 256 = 32
    /\ read(memory, 40) = 8199
    /\ read(memory, 41) = 61440
    /\ read(memory, 42) = 0

=============================================================================
